---------------------------- MODULE Spec2Model ----------------------------
(***************************************************************************)
(* memory_db (src/src/lib.rs): a flat-file key/value store.                *)
(*                                                                         *)
(*   load_db(path)            reads <path>/memory.db into a DB<T>          *)
(*   save_db(path, contents)  prunes old backups, copies the live file to  *)
(*                            <path>/backups/<rfc3339 now>, writes the map *)
(*                            to <path>/memory.db.tmp, copies it over the  *)
(*                            live file and removes the temp file          *)
(*                                                                         *)
(* The model is the directory <path> of one store location and the calls   *)
(* made on it.  File contents are sequences of one-character strings, so   *)
(* that the text format (lines, '=', trimming, JSON quoting) is computed   *)
(* the way the code computes it.                                           *)
(*                                                                         *)
(* Environment assumptions, stated once:                                   *)
(*  - every filesystem call is atomic and either fails or takes full       *)
(*    effect (a `write` writes the whole buffer);                          *)
(*  - chrono::Local::now() is strictly later at every save than at the     *)
(*    save before it and than every backup already in the directory;       *)
(*  - fs::read_dir yields every entry of the directory (the Err arm of     *)
(*    lib.rs:108 is never taken).                                          *)
(***************************************************************************)
EXTENDS Integers, Sequences, FiniteSets, TLC

-----------------------------------------------------------------------------
(* Characters *)

NL == "\n"
CR == "\r"
TAB == "\t"
SP == " "
EQ == "="
QT == "\""
BS == "\\"

\* char::is_whitespace, restricted to the characters of the model
IsWhitespace(c) == c \in {SP, NL, CR, TAB}

Digits == {"0", "1", "2", "3", "4", "5", "6", "7", "8", "9"}

-----------------------------------------------------------------------------
(* Text helpers of the standard library, as load_db uses them *)

\* position of the first c in s, 0 when there is none
IndexOf(s, c) ==
  IF \E i \in 1..Len(s) : s[i] = c
  THEN CHOOSE i \in 1..Len(s) : s[i] = c /\ \A j \in 1..(i - 1) : s[j] # c
  ELSE 0

\* str::trim
trim(s) ==
  LET keep == {i \in 1..Len(s) : ~IsWhitespace(s[i])}
  IN IF keep = {} THEN <<>>
     ELSE LET lo == CHOOSE i \in keep : \A j \in keep : i <= j
              hi == CHOOSE i \in keep : \A j \in keep : j <= i
          IN SubSeq(s, lo, hi)

\* one line of str::lines: a trailing "\r" is not part of the line
StripCR(s) ==
  IF Len(s) > 0 /\ s[Len(s)] = CR THEN SubSeq(s, 1, Len(s) - 1) ELSE s

\* str::lines: split at "\n"; no empty line after a final "\n"
RECURSIVE lines(_)
lines(s) ==
  IF s = <<>> THEN <<>>
  ELSE LET i == IndexOf(s, NL)
       IN IF i = 0 THEN <<StripCR(s)>>
          ELSE <<StripCR(SubSeq(s, 1, i - 1))>> \o lines(SubSeq(s, i + 1, Len(s)))

\* faulty variant: a line without '=' is a key with an empty value
split_once_whole(s) ==
  LET i == IndexOf(s, EQ)
  IN IF i = 0 THEN [some |-> TRUE, k |-> s, v |-> <<>>]
     ELSE [some |-> TRUE, k |-> SubSeq(s, 1, i - 1), v |-> SubSeq(s, i + 1, Len(s))]

\* str::split_once('='): None, or the text before and after the first '='
split_once(s) ==
  LET i == IndexOf(s, EQ)
  IN IF i = 0 THEN [some |-> FALSE, k |-> <<>>, v |-> <<>>]
     ELSE [some |-> TRUE, k |-> SubSeq(s, 1, i - 1), v |-> SubSeq(s, i + 1, Len(s))]

-----------------------------------------------------------------------------
(* Values of the DB<T> and their JSON encoding (serde_json)                *)
(* T is "String" or "f64".  A String value is its characters.  An f64      *)
(* value is named by the text Rust prints for it: the shortest decimal     *)
(* that reads back to it ("1.5", "2.0"), or "NaN".                         *)

StringVal(s) == [ty |-> "String", v |-> s]
F64Val(s) == [ty |-> "f64", v |-> s]
NaN == F64Val(<<"N", "a", "N">>)

\* faulty variant: no escaping at all
EscapeCharRaw(c) == <<c>>

\* serde_json's string escaping of one character
EscapeChar(c) ==
  CASE c = QT -> <<BS, QT>>
    [] c = BS -> <<BS, BS>>
    [] c = NL -> <<BS, "n">>
    [] c = CR -> <<BS, "r">>
    [] c = TAB -> <<BS, "t">>
    [] OTHER -> <<c>>

RECURSIVE EscapeStr(_)
EscapeStr(s) ==
  IF s = <<>> THEN <<>> ELSE EscapeChar(Head(s)) \o EscapeStr(Tail(s))

\* serde_json::to_string(value): a quoted, escaped string; a finite float as
\* its shortest decimal; a float that is not finite as null
to_string(val) ==
  IF val.ty = "String" THEN <<QT>> \o EscapeStr(val.v) \o <<QT>>
  ELSE IF val = NaN THEN <<"n", "u", "l", "l">>
  ELSE val.v

\* the character an escape \c stands for, "" when \c is no escape of the model
\* (\u is outside the modelled alphabet)
Unescape(c) ==
  CASE c = QT -> QT
    [] c = BS -> BS
    [] c = "/" -> "/"
    [] c = "n" -> NL
    [] c = "r" -> CR
    [] c = "t" -> TAB
    [] OTHER -> ""

\* the body of a JSON string from position i of s on: the decoded characters
\* and the position after the closing quote (0: not a string)
RECURSIVE ParseStrBody(_, _, _)
ParseStrBody(s, i, acc) ==
  IF i > Len(s) THEN [end |-> 0, v |-> <<>>]
  ELSE IF s[i] = QT THEN [end |-> i + 1, v |-> acc]
  ELSE IF s[i] = BS THEN
    IF i + 1 > Len(s) \/ Unescape(s[i + 1]) = "" THEN [end |-> 0, v |-> <<>>]
    ELSE ParseStrBody(s, i + 2, Append(acc, Unescape(s[i + 1])))
  ELSE IF s[i] \in {NL, CR, TAB} THEN [end |-> 0, v |-> <<>>]
  ELSE ParseStrBody(s, i + 1, Append(acc, s[i]))

\* serde_json::from_str::<String>: one string and nothing but whitespace after
DecodeString(s) ==
  IF s = <<>> \/ s[1] # QT THEN [ok |-> FALSE, val |-> StringVal(<<>>)]
  ELSE LET p == ParseStrBody(s, 2, <<>>)
       IN IF p.end = 0 \/ trim(SubSeq(s, p.end, Len(s))) # <<>>
          THEN [ok |-> FALSE, val |-> StringVal(<<>>)]
          ELSE [ok |-> TRUE, val |-> StringVal(p.v)]

AllDigits(s) == Len(s) > 0 /\ \A i \in 1..Len(s) : s[i] \in Digits

\* a fraction without its trailing zeros, one digit at least
RECURSIVE StripZeros(_)
StripZeros(s) ==
  IF Len(s) > 1 /\ s[Len(s)] = "0" THEN StripZeros(SubSeq(s, 1, Len(s) - 1)) ELSE s

\* serde_json::from_str::<f64>: a JSON number (digits, an optional fraction;
\* no leading zero), read as the float whose shortest decimal it is; null and
\* everything else is an error.  Signs and exponents are outside the alphabet.
DecodeF64(s) ==
  LET dot == IndexOf(s, ".")
      int == IF dot = 0 THEN s ELSE SubSeq(s, 1, dot - 1)
      frac == IF dot = 0 THEN <<"0">> ELSE SubSeq(s, dot + 1, Len(s))
  IN IF AllDigits(int) /\ AllDigits(frac) /\ (Len(int) = 1 \/ int[1] # "0")
     THEN [ok |-> TRUE, val |-> F64Val(int \o <<".">> \o StripZeros(frac))]
     ELSE [ok |-> FALSE, val |-> F64Val(<<>>)]

\* serde_json::from_str::<T>
from_str(T, s) == IF T = "String" THEN DecodeString(trim(s)) ELSE DecodeF64(trim(s))


-----------------------------------------------------------------------------
(* The directory <path> on disk *)

File(data, readable) == [exists |-> TRUE, data |-> data, readable |-> readable]
NoFile == [exists |-> FALSE, data |-> <<>>, readable |-> FALSE]

\* A name in <path>/backups.  "offset" is a timestamp the way to_rfc3339
\* writes it (numeric offset, "+00:00"); "zulu" is the same instant written
\* with a "Z" suffix, which parse_from_rfc3339 accepts and to_rfc3339 never
\* writes; "junk" is a name that is no RFC3339 timestamp.
Name(ts, form) == [ts |-> ts, form |-> form]

\* DateTime::parse_from_rfc3339(name)
parse_from_rfc3339(name) ==
  IF name.form = "junk" THEN [ok |-> FALSE, ts |-> 0] ELSE [ok |-> TRUE, ts |-> name.ts]

\* DateTime::to_rfc3339
to_rfc3339(ts) == Name(ts, "offset")

EmptyDB == [k \in {} |-> StringVal(<<>>)]

\* HashMap::insert
Insert(db, key, val) ==
  [k \in DOMAIN db \cup {key} |-> IF k = key THEN val ELSE db[k]]

\* fs::read_to_string(<path>/memory.db)
read_to_string(file) ==
  IF file.exists /\ file.readable THEN [ok |-> TRUE, text |-> file.data]
  ELSE [ok |-> FALSE, text |-> <<>>]

\* Result::unwrap_or_default on the read: an error of any kind is ""
unwrap_or_default(r) == IF r.ok THEN r.text ELSE <<>>

\* faulty variant: a value that does not decode is skipped like a line
\* without '='
RECURSIVE LoadLinesSkip(_, _, _)
LoadLinesSkip(T, ls, db) ==
  IF ls = <<>> THEN [res |-> "Ok", db |-> db]
  ELSE LET kv == split_once(Head(ls))
       IN IF ~kv.some \/ ~from_str(T, kv.v).ok THEN LoadLinesSkip(T, Tail(ls), db)
          ELSE LoadLinesSkip(T, Tail(ls), Insert(db, trim(kv.k), from_str(T, kv.v).val))

\* the loop of load_db over the lines ls, from the map db
RECURSIVE LoadLines(_, _, _)
LoadLines(T, ls, db) ==
  IF ls = <<>> THEN [res |-> "Ok", db |-> db]
  ELSE LET kv == split_once(Head(ls))
       IN IF ~kv.some THEN LoadLines(T, Tail(ls), db)
          ELSE LET value == from_str(T, kv.v)
               IN IF ~value.ok THEN [res |-> "SerdeErr", db |-> EmptyDB]
                  ELSE LoadLines(T, Tail(ls), Insert(db, trim(kv.k), value.val))

\* faulty variant: load_db with `?` on the read: a read error is returned
load_db_strict(T, fs) ==
  IF ~read_to_string(fs.live).ok THEN [res |-> "IoErr", db |-> EmptyDB]
  ELSE LoadLines(T, lines(read_to_string(fs.live).text), EmptyDB)

\* load_db::<T>(path) on the disk state fs
load_db(T, fs) ==
  LoadLines(T, lines(unwrap_or_default(read_to_string(fs.live))), EmptyDB)

-----------------------------------------------------------------------------
(* save_db *)

MAX_BACKUPS == 10

\* An injected failure: the filesystem call `stage` returns an error; for the
\* calls made in a loop (remove_file, write), at iteration idx (from 0).
NoFail == [stage |-> "none", idx |-> 0]
FailAt(stage, idx) == [stage |-> stage, idx |-> idx]

\* the order of a directory listing: the position of a name when names are
\* listed by timestamp, junk first
NameKey(n) ==
  CASE n.form = "junk" -> 0
    [] n.form = "offset" -> 2 * n.ts
    [] OTHER -> 2 * n.ts + 1

\* the names S listed by NameKey, ascending or (rev) descending
RECURSIVE Listed(_, _)
Listed(S, rev) ==
  IF S = {} THEN <<>>
  ELSE LET n == CHOOSE x \in S : \A y \in S : NameKey(x) <= NameKey(y)
       IN IF rev THEN Append(Listed(S \ {n}, rev), n)
          ELSE <<n>> \o Listed(S \ {n}, rev)

\* fs::read_dir(&backup_dir): the entries in an order that is the operating
\* system's; the model takes the two extreme orders
read_dir(backups) == {Listed(DOMAIN backups, rev) : rev \in BOOLEAN}

\* faulty variant: no sort: the directory's order is kept
sort_none(s) == s

\* file_names.sort(): ascending; DateTime orders by instant
sort(s) == SortSeq(s, LAMBDA a, b : a < b)

\* file_names.len().saturating_sub(MAX_BACKUPS)
backups_to_delete(file_names) ==
  IF Len(file_names) > MAX_BACKUPS THEN Len(file_names) - MAX_BACKUPS ELSE 0

\* the removal loop of delete_old_backups over the first k timestamps of the
\* sorted file_names, from iteration i (counted from 1): the file removed is
\* the one named by the timestamp written back with to_rfc3339; a name that
\* is not in the directory is an error of remove_file (NotFound)
RECURSIVE RemoveLoop(_, _, _, _, _)
RemoveLoop(bk, file_names, k, i, fail) ==
  IF i > k THEN [res |-> "Ok", stage |-> "none", backups |-> bk]
  ELSE LET name == to_rfc3339(file_names[i])
       IN IF fail = FailAt("remove_file", i - 1) \/ name \notin DOMAIN bk
          THEN [res |-> "Err", stage |-> "remove_file", backups |-> bk]
          ELSE RemoveLoop([n \in DOMAIN bk \ {name} |-> bk[n]], file_names, k, i + 1, fail)

\* faulty variant: the directory is listed without the test of lib.rs:96,
\* and read_dir fails on a directory that does not exist
delete_old_backups_strict(fs, paths, fail) ==
  IF ~fs.bdir \/ fail.stage = "read_dir"
  THEN [res |-> "Err", stage |-> "read_dir", backups |-> fs.backups]
  ELSE IF \E i \in 1..Len(paths) : ~parse_from_rfc3339(paths[i]).ok
  THEN [res |-> "Panic", stage |-> "parse", backups |-> fs.backups]
  ELSE LET file_names == sort([i \in 1..Len(paths) |-> parse_from_rfc3339(paths[i]).ts])
       IN RemoveLoop(fs.backups, file_names, backups_to_delete(file_names), 1, fail)

\* delete_old_backups(path): the result, the call that failed, and the
\* backups left.  A name that is no timestamp makes the unwrap of lib.rs:106
\* panic, before anything is removed.
delete_old_backups(fs, paths, fail) ==
  IF ~fs.bdir THEN [res |-> "Ok", stage |-> "none", backups |-> fs.backups]
  ELSE IF fail.stage = "read_dir"
  THEN [res |-> "Err", stage |-> "read_dir", backups |-> fs.backups]
  ELSE IF \E i \in 1..Len(paths) : ~parse_from_rfc3339(paths[i]).ok
  THEN [res |-> "Panic", stage |-> "parse", backups |-> fs.backups]
  ELSE LET file_names == sort([i \in 1..Len(paths) |-> parse_from_rfc3339(paths[i]).ts])
       IN RemoveLoop(fs.backups, file_names, backups_to_delete(file_names), 1, fail)


\* format!("{}={}\n", key, serde_json::to_string(value)?)
Line(key, val) == key \o <<EQ>> \o to_string(val) \o <<NL>>

\* what the loop of lib.rs:84-86 has written after n entries, the map being
\* iterated in the order `order` (a sequence of its keys)
RECURSIVE Written(_, _, _)
Written(db, order, n) ==
  IF n = 0 THEN <<>>
  ELSE Written(db, order, n - 1) \o Line(order[n], db[order[n]])

\* the bytes fs::copy puts into the backup: the live file's
BackupSource(fs) == fs.live.data

\* faulty variant: the backup named by a timestamp cut to a coarser unit
backup_path_coarse(now) == to_rfc3339(now - (now % 2))

\* backup_dir.join(chrono::Local::now().to_rfc3339())
backup_path(now) == to_rfc3339(now)

\* faulty variant: the temp file opened without truncating it
CreateTempKeep(tmp) == IF tmp.exists THEN tmp ELSE File(<<>>, TRUE)

\* File::create(&temp_path): a new or truncated file
CreateTemp(tmp) == File(<<>>, TRUE)

\* faulty variant: the backup copied after the live file was overwritten
StagesBackupLast ==
  << "exists_root", "create_root", "create_tmp", "exists_live", "create_live",
     "exists_bdir", "create_bdir", "open_tmp", "write", "copy_live",
     "copy_backup", "remove_tmp" >>

\* faulty variant: no backup is copied
StagesNoBackup ==
  << "exists_root", "create_root", "create_tmp", "exists_live", "create_live",
     "exists_bdir", "create_bdir", "open_tmp", "write", "copy_live",
     "remove_tmp" >>

\* faulty variant: the temp file is not removed
StagesKeepTemp ==
  << "exists_root", "create_root", "create_tmp", "exists_live", "create_live",
     "exists_bdir", "create_bdir", "copy_backup", "open_tmp", "write",
     "copy_live" >>

\* the filesystem calls of save_db after delete_old_backups, in order
Stages ==
  << "exists_root", "create_root", "create_tmp", "exists_live", "create_live",
     "exists_bdir", "create_bdir", "copy_backup", "open_tmp", "write",
     "copy_live", "remove_tmp" >>

\* faulty variant: the live file is created (truncated) without the test of
\* lib.rs:73
AppliesTruncate(stage, fs) ==
  CASE stage = "create_root" -> ~fs.root
    [] stage = "create_bdir" -> ~fs.bdir
    [] OTHER -> TRUE

\* whether save_db makes the call, the disk being fs
Applies(stage, fs) ==
  CASE stage = "create_root" -> ~fs.root
    [] stage = "create_live" -> ~fs.live.exists
    [] stage = "create_bdir" -> ~fs.bdir
    [] OTHER -> TRUE

\* whether the call fails: a failure is injected, or the live file cannot be
\* opened for reading
Fails(stage, fs, db, fail) ==
  \/ fail.stage = stage /\ (stage = "write" => fail.idx < Cardinality(DOMAIN db))
  \/ stage = "copy_backup" /\ ~fs.live.readable

\* the disk after the call succeeded
Effect(stage, fs, db, order, now) ==
  CASE stage = "create_root" -> [fs EXCEPT !.root = TRUE]
    [] stage = "create_tmp" -> [fs EXCEPT !.tmp = CreateTemp(fs.tmp)]
    [] stage = "create_live" -> [fs EXCEPT !.live = File(<<>>, TRUE)]
    [] stage = "create_bdir" -> [fs EXCEPT !.bdir = TRUE]
    [] stage = "copy_backup" ->
         [fs EXCEPT !.backups =
            [n \in DOMAIN fs.backups \cup {backup_path(now)} |->
               IF n = backup_path(now) THEN BackupSource(fs) ELSE fs.backups[n]]]
    [] stage = "write" ->
         [fs EXCEPT !.tmp.data = fs.tmp.data \o Written(db, order, Len(order))]
    [] stage = "copy_live" -> [fs EXCEPT !.live = File(fs.tmp.data, fs.tmp.readable)]
    [] stage = "remove_tmp" -> [fs EXCEPT !.tmp = NoFile]
    [] OTHER -> fs

\* the disk after the call failed: the entries written before the failing
\* write stay in the temp file
Partial(stage, fs, db, order, fail) ==
  IF stage = "write" /\ fail.stage = "write"
  THEN [fs EXCEPT !.tmp.data = fs.tmp.data \o Written(db, order, fail.idx)]
  ELSE fs

\* save_db from its i-th call on: every `?` returns at the first failure
RECURSIVE RunStages(_, _, _, _, _, _)
RunStages(fs, i, db, order, now, fail) ==
  IF i > Len(Stages) THEN [res |-> "Ok", stage |-> "none", fs |-> fs]
  ELSE LET stage == Stages[i]
       IN IF ~Applies(stage, fs) THEN RunStages(fs, i + 1, db, order, now, fail)
          ELSE IF Fails(stage, fs, db, fail)
          THEN [res |-> "Err", stage |-> stage, fs |-> Partial(stage, fs, db, order, fail)]
          ELSE RunStages(Effect(stage, fs, db, order, now), i + 1, db, order, now, fail)

\* faulty variant: the live file created (truncated) before retention runs
save_db_create_first(fs, db, order, now, paths, fail) ==
  LET created == [fs EXCEPT !.live = File(<<>>, TRUE)]
      r == delete_old_backups(created, paths, fail)
      pruned == [created EXCEPT !.backups = r.backups]
  IN IF r.res # "Ok" THEN [res |-> r.res, stage |-> r.stage, fs |-> pruned]
     ELSE RunStages(pruned, 1, db, order, now, fail)

\* save_db(path, contents): retention first, then the calls above
save_db(fs, db, order, now, paths, fail) ==
  LET r == delete_old_backups(fs, paths, fail)
      pruned == [fs EXCEPT !.backups = r.backups]
  IN IF r.res # "Ok" THEN [res |-> r.res, stage |-> r.stage, fs |-> pruned]
     ELSE RunStages(pruned, 1, db, order, now, fail)


-----------------------------------------------------------------------------
(* The calls and their inputs *)

\* bounds of the model
MaxEntries == 2
MaxOps == 2
ExtraBackups == 2

Keys == { <<"a">>, <<"b", SP, "c">>, <<SP, "a">>, <<"a", NL, "b">>, <<"a", EQ, "b">> }

ValsString == {StringVal(<<"x">>), StringVal(<<SP, EQ, QT, BS, NL>>)}
ValsF64 == {F64Val(<<"1", ".", "5">>), NaN}

\* the maps over the keys K and the values V with MaxEntries entries at most
Maps(K, V) ==
  UNION {[D -> V] : D \in {D \in SUBSET K : Cardinality(D) <= MaxEntries}}

DBsString == Maps(Keys, ValsString)
DBsF64 == Maps(Keys, ValsF64)

\* the maps a caller may pass to save_db::<T>
DBs(T) == IF T = "String" THEN DBsString ELSE DBsF64

\* plain maps, of letters only: no entry, one, two
OneEntry == [k \in {<<"a">>} |-> StringVal(<<"x">>)]
TwoEntries == [k \in {<<"a">>, <<"b">>} |-> StringVal(<<"x">>)]
PlainDBs == {EmptyDB, OneEntry, TwoEntries}

\* the orders a HashMap may iterate its keys in
Orders(db) ==
  LET n == Cardinality(DOMAIN db)
  IN {o \in [1..n -> DOMAIN db] : \A i, j \in 1..n : o[i] = o[j] => i = j}

Failures ==
  {NoFail} \cup {FailAt(Stages[i], 0) : i \in 1..Len(Stages)}
  \cup {FailAt("read_dir", 0)}
  \cup {FailAt("write", i) : i \in 1..(MaxEntries - 1)}
  \cup {FailAt("remove_file", i) : i \in 0..(ExtraBackups - 1)}

VARIABLES
  T,      \* the value type the store is used with
  fs,     \* the directory <path>: root, live, tmp, bdir, backups
  clock,  \* the wall clock
  call,   \* the last call: its name, result, failing stage, map and timestamp
  ops     \* the number of calls made

vars == <<T, fs, clock, call, ops>>

Disk(root, live, tmp, bdir, backups) ==
  [root |-> root, live |-> live, tmp |-> tmp, bdir |-> bdir, backups |-> backups]

NoBackups == [n \in {} |-> <<>>]

\* a backups directory holding the names S, each an empty file
Backups(S) == [n \in S |-> <<>>]

Stored == Line(<<"a">>, StringVal(<<"x">>))

\* a location never saved to
FreshDisk == Disk(FALSE, NoFile, NoFile, FALSE, NoBackups)

\* an existing directory without backups: no live file or a stored one,
\* readable or not; no temp file or one left behind
BareDisks ==
  {Disk(TRUE, live, NoFile, FALSE, NoBackups) :
     live \in {NoFile, File(Stored, TRUE), File(Stored, FALSE)}}
  \cup {Disk(TRUE, File(Stored, TRUE), File(<<"z", NL>>, TRUE), FALSE, NoBackups)}

\* a store with the k backups of timestamps 1..k and the names `extra`
UsedDisk(k, extra) ==
  Disk(TRUE, File(Stored, TRUE), NoFile, TRUE,
       Backups({to_rfc3339(t) : t \in 1..k} \cup extra))

\* stores with MAX_BACKUPS backups and more, some with a foreign name in the
\* directory: one that is no timestamp, or a timestamp written with "Z"
UsedDisks ==
  {UsedDisk(k, {}) : k \in MAX_BACKUPS..(MAX_BACKUPS + ExtraBackups)}
  \cup {UsedDisk(MAX_BACKUPS + 1, {Name(0, "junk")})}
  \cup {UsedDisk(k, {Name(1, "zulu")}) : k \in MAX_BACKUPS..(MAX_BACKUPS + 1)}

\* the latest timestamp among the names S, 0 when there is none
Latest(S) == IF S = {} THEN 0 ELSE CHOOSE t \in {n.ts : n \in S} : \A n \in S : n.ts <= t

NoCall == [name |-> "none", res |-> "Ok", stage |-> "none", db |-> EmptyDB, ts |-> 0]

Init ==
  /\ T = "String"
  /\ fs \in {FreshDisk} \cup BareDisks \cup UsedDisks
  /\ clock = Latest(DOMAIN fs.backups)
  /\ call = NoCall
  /\ ops = 0

\* a call of save_db::<T>(path, &db), the directory being listed as `paths`
\* and the filesystem call `fail` failing
SaveDb(db, paths, fail) ==
  /\ ops < MaxOps
  /\ \E order \in Orders(db) :
       LET now == clock + 1
           r == save_db(fs, db, order, now, paths, fail)
       IN /\ fs' = r.fs
          /\ clock' = now
          /\ call' = [name |-> "save", res |-> r.res, stage |-> r.stage,
                      db |-> db, ts |-> now]
  /\ ops' = ops + 1
  /\ UNCHANGED T

\* faulty variant: load_db opens the store file with create(true)
LoadDbCreates ==
  /\ ops < MaxOps
  /\ LET r == load_db(T, fs)
     IN call' = [name |-> "load", res |-> r.res, stage |-> "none",
                 db |-> r.db, ts |-> 0]
  /\ fs' = IF fs.live.exists THEN fs
           ELSE [fs EXCEPT !.root = TRUE, !.live = File(<<>>, TRUE)]
  /\ ops' = ops + 1
  /\ UNCHANGED <<T, clock>>

\* a call of load_db::<T>(path)
LoadDb ==
  /\ ops < MaxOps
  /\ LET r == load_db(T, fs)
     IN call' = [name |-> "load", res |-> r.res, stage |-> "none",
                 db |-> r.db, ts |-> 0]
  /\ ops' = ops + 1
  /\ UNCHANGED <<T, fs, clock>>

Next ==
  \/ \E paths \in read_dir(fs.backups), db \in PlainDBs, fail \in Failures :
       SaveDb(db, paths, fail)
  \/ LoadDb

Spec == Init /\ [][Next]_vars

\* The text format: one save_db of a map of either value type, with keys
\* and values that hold separators, blanks, quotes and line breaks, on a
\* store that is new, or stored with a temp file left behind (a line that is
\* no record, or a record), or saved to before; then load_db.  No failure is
\* injected.
CodecDisks ==
  { FreshDisk,
    Disk(TRUE, File(Stored, TRUE), File(<<"z", NL>>, TRUE), FALSE, NoBackups),
    Disk(TRUE, File(<<"z", NL>>, TRUE), File(Stored, TRUE), FALSE, NoBackups),
    Disk(TRUE, File(<<"z", NL>>, TRUE), NoFile, TRUE, Backups({to_rfc3339(1)})) }

InitCodec ==
  /\ T \in {"String", "f64"}
  /\ fs \in CodecDisks
  /\ clock = Latest(DOMAIN fs.backups)
  /\ call = NoCall
  /\ ops = 0

NextCodec ==
  \/ \E paths \in read_dir(fs.backups), db \in DBs(T) :
       call.name = "none" /\ SaveDb(db, paths, NoFail)
  \/ LoadDb

SpecCodec == InitCodec /\ [][NextCodec]_vars

\* The reader: load_db, called up to MaxOps times, on store files of up to
\* MaxLines lines: records of either value type, with blanks around the key
\* and the value, a key stored twice, lines without '=', an empty line, a
\* line ending in "\r\n", a value that is no JSON; and on the stores without
\* a file or with one that cannot be read.
MaxLines == 3

FileLines ==
  { <<"a", EQ, QT, "x", QT>>,
    <<"a", EQ, QT, "y", QT>>,
    <<SP, "b", SP, EQ, SP, QT, "x", QT, SP>>,
    <<"a", EQ, "1", ".", "5">>,
    <<"b", EQ, "2", ".", "5", "0", CR>>,
    <<"c", EQ, "x">>,
    <<"j", "u", "n", "k">>,
    <<>> }

\* the file whose lines are ls, each ended by a line break
RECURSIVE Text(_)
Text(ls) == IF ls = <<>> THEN <<>> ELSE Head(ls) \o <<NL>> \o Text(Tail(ls))

Texts == {Text(ls) : ls \in UNION {[1..n -> FileLines] : n \in 0..MaxLines}}

LoadDisks ==
  {Disk(TRUE, File(text, TRUE), NoFile, FALSE, NoBackups) : text \in Texts}
  \cup {FreshDisk} \cup BareDisks

InitLoad ==
  /\ T \in {"String", "f64"}
  /\ fs \in LoadDisks
  /\ clock = 0
  /\ call = NoCall
  /\ ops = 0

NextLoad == LoadDb

SpecLoad == InitLoad /\ [][NextLoad]_vars

-----------------------------------------------------------------------------
(* Claims *)

SaveOk(c) == c.name = "save" /\ c.res = "Ok"

HasChar(s, c) == \E i \in 1..Len(s) : s[i] = c

\* the line save_db writes for the key k of db, without its line break
Record(db, k) == k \o <<EQ>> \o to_string(db[k])

\* C1 as stated: when save_db(M) succeeded and no key of M contains '=',
\* the load_db that follows succeeds and returns M.
C1_RoundTripNoEq ==
  [][(/\ SaveOk(call)
      /\ \A k \in DOMAIN call.db : ~HasChar(k, EQ)
      /\ call'.name = "load")
     => call'.res = "Ok" /\ call'.db = call.db]_vars

\* a key load_db reads back as it was written: no '=', no line break, no
\* whitespace at either end
PlainKey(k) == ~HasChar(k, EQ) /\ ~HasChar(k, NL) /\ trim(k) = k

\* C1 amended: when save_db(M) succeeded, every key of M is free of '=' and
\* of line breaks and has no whitespace at either end, and no value is a
\* float that is not finite, the load_db that follows succeeds and returns M,
\* whatever the store held before.
C1_RoundTrip ==
  [][(/\ SaveOk(call)
      /\ \A k \in DOMAIN call.db : PlainKey(k) /\ call.db[k] # NaN
      /\ call'.name = "load")
     => call'.res = "Ok" /\ call'.db = call.db]_vars

\* C1 witness: a map of two plain keys, one value with a quote, a backslash,
\* a '=' and a line break, saved over a stored file and loaded back.
C1_Witness ==
  /\ call.name = "load" /\ call.res = "Ok"
  /\ DOMAIN call.db = {<<"a">>, <<"b", SP, "c">>}
  /\ call.db[<<"a">>] = StringVal(<<SP, EQ, QT, BS, NL>>)
  /\ \E n \in DOMAIN fs.backups : fs.backups[n] = Stored

\* the live file holds one line per entry of db and no other line
OneLinePerEntry(db) ==
  LET ls == lines(fs.live.data)
  IN /\ fs.live.exists
     /\ Len(ls) = Cardinality(DOMAIN db)
     /\ \A k \in DOMAIN db : \E i \in 1..Len(ls) : ls[i] = Record(db, k)

\* C2 as stated: after a successful save_db(M) the live file exists and its
\* lines are exactly the lines key=<encoded value> of the entries of M.
C2_LiveIsMapLines == SaveOk(call) => OneLinePerEntry(call.db)

\* C2 amended: after a successful save_db(M) in which no key contains a
\* line break, the live file exists and its lines are exactly the lines
\* key=<encoded value> of the entries of M, whatever it held before.
C2_LiveIsMap ==
  (SaveOk(call) /\ \A k \in DOMAIN call.db : ~HasChar(k, NL))
    => OneLinePerEntry(call.db)

\* C2 witness: a successful save of two entries over a stored live file
\* and a temp file left behind.
C2_Witness ==
  /\ SaveOk(call)
  /\ DOMAIN call.db = {<<"a", EQ, "b">>, <<SP, "a">>}
  /\ \E n \in DOMAIN fs.backups : fs.backups[n] = Stored

\* C2 witness, the empty map: the live file exists and has no line.
C2_WitnessEmpty ==
  SaveOk(call) /\ call.db = EmptyDB /\ fs.live.exists /\ fs.live.data = <<>>


\* C3 as stated: after a successful save_db at most MAX_BACKUPS backup files
\* exist (the directory holding nothing but backups that save_db wrote).
C3_BackupCap ==
  (SaveOk(call) /\ \A n \in DOMAIN fs.backups : n.form = "offset")
    => Cardinality(DOMAIN fs.backups) <= MAX_BACKUPS

\* C4: the backup a successful save_db writes holds what the live file held
\* when the save started (nothing when there was no live file).
C4_BackupIsPreSave ==
  [][SaveOk(call') =>
       /\ to_rfc3339(call'.ts) \in DOMAIN fs'.backups
       /\ fs'.backups[to_rfc3339(call'.ts)] = fs.live.data]_vars

\* C4 witness: a second successful save; its backup holds the map of the
\* first save, which is neither the stored file nor the map just saved.
C4_Witness ==
  /\ SaveOk(call) /\ ops = 2
  /\ fs.backups[to_rfc3339(call.ts)] = Written(TwoEntries, << <<"b">>, <<"a">> >>, 2)
  /\ fs.live.data = <<>>

\* C5: load_db where there is no store file returns Ok and an empty map.
C5_MissingFileLoads ==
  (call.name = "load" /\ ~fs.live.exists) => (call.res = "Ok" /\ call.db = EmptyDB)

\* C5 witness: load_db on a location that does not exist.
C5_Witness == call.name = "load" /\ ~fs.live.exists /\ ~fs.root

\* C6 as stated: load_db where the store file exists and cannot be read
\* returns an IO error.
C6_UnreadableIsError ==
  (call.name = "load" /\ fs.live.exists /\ ~fs.live.readable) => call.res = "IoErr"

\* the names of the backups directory that are no timestamps
Foreign(backups) == {n \in DOMAIN backups : ~parse_from_rfc3339(n).ok}

\* C7 as stated: a name in the backups directory that is no RFC3339
\* timestamp does not make retention or save_db abort, and stays.
C7_ForeignIgnored ==
  [][(call'.name = "save" /\ Foreign(fs.backups) # {}) =>
       /\ call'.res # "Panic"
       /\ Foreign(fs.backups) \subseteq DOMAIN fs'.backups]_vars

\* retention ran to its end in the save_db call c
RetentionRan(c) == c.name = "save" /\ c.stage \notin {"read_dir", "remove_file", "parse"}

\* C8: a retention that runs to its end over count timestamp names deletes
\* count - MAX_BACKUPS of them when count > MAX_BACKUPS and none otherwise,
\* and every name it deletes is at most as late as every name it keeps.
C8_OldestFirst ==
  [][RetentionRan(call') =>
       LET before == DOMAIN fs.backups
           deleted == before \ DOMAIN fs'.backups
           count == Cardinality(before)
       IN /\ Cardinality(deleted) =
               IF count > MAX_BACKUPS THEN count - MAX_BACKUPS ELSE 0
          /\ \A d \in deleted, k \in before \ deleted : d.ts <= k.ts]_vars

\* C8 witness: a save over twelve backups deleted the two oldest.
C8_Witness ==
  /\ SaveOk(call) /\ call.ts = MAX_BACKUPS + 3
  /\ {n.ts : n \in DOMAIN fs.backups} = 3..(MAX_BACKUPS + 3)

\* C9: when read_dir or remove_file fails in retention, save_db returns an
\* error and the live file and the temp file are as they were.
C9_RetentionFailureLeavesLive ==
  [][(call'.name = "save" /\ call'.stage \in {"read_dir", "remove_file"}) =>
       /\ call'.res = "Err"
       /\ fs'.live = fs.live
       /\ fs'.tmp = fs.tmp]_vars

\* C9 witness: remove_file failed on the second of two removals; one backup
\* is gone and the live file holds what it held.
C9_Witness ==
  /\ call.name = "save" /\ call.stage = "remove_file" /\ call.ts = MAX_BACKUPS + 3
  /\ {n.ts : n \in DOMAIN fs.backups} = 2..(MAX_BACKUPS + 2)
  /\ fs.live = File(Stored, TRUE)

\* C10: a backup that is in the directory before and after a call holds the
\* same bytes.
C10_BackupsImmutable ==
  [][\A n \in DOMAIN fs.backups \cap DOMAIN fs'.backups :
       fs'.backups[n] = fs.backups[n]]_vars

\* C10 witness: after two successful saves the backup of the first still
\* holds the stored file, the backup of the second the first map, and the
\* live file the second map.
C10_Witness ==
  /\ SaveOk(call) /\ ops = 2
  /\ to_rfc3339(call.ts - 1) \in DOMAIN fs.backups
  /\ fs.backups[to_rfc3339(call.ts - 1)] = Stored
  /\ fs.backups[to_rfc3339(call.ts)] = Written(TwoEntries, << <<"a">>, <<"b">> >>, 2)
  /\ fs.live.data = <<>>

\* C11: when save_db has returned Ok there is no temp file.
C11_NoTempAfterOk == SaveOk(call) => ~fs.tmp.exists

\* C11 witness: the second of two save_db calls returned Ok; the live file
\* holds its map, two backups were written and there is no temp file.
C11_Witness ==
  /\ SaveOk(call) /\ ops = 2 /\ call.db = OneEntry
  /\ ~fs.tmp.exists
  /\ fs.live.data = Line(<<"a">>, StringVal(<<"x">>))
  /\ Cardinality(DOMAIN fs.backups) = 2

\* the lines of the live file
LiveLines == lines(fs.live.data)

\* the positions of the lines of ls that hold a '='
WithEq(ls) == {i \in 1..Len(ls) : HasChar(ls[i], EQ)}

\* the key of the line l, and whether its value decodes for the type T
KeyOf(l) == trim(SubSeq(l, 1, IndexOf(l, EQ) - 1))
ValueOf(l) == from_str(T, SubSeq(l, IndexOf(l, EQ) + 1, Len(l)))

\* the map the lines of ls with a '=' stand for: each key with the value of
\* the last line that holds it
EntriesOf(ls) ==
  LET keys == {KeyOf(ls[i]) : i \in WithEq(ls)}
      last(k) == CHOOSE i \in WithEq(ls) :
                   KeyOf(ls[i]) = k /\ \A j \in WithEq(ls) : KeyOf(ls[j]) = k => j <= i
  IN [k \in keys |-> ValueOf(ls[last(k)]).val]

\* C12: when the store file (one that can be read) has lines without '=' and
\* the value of every other line decodes, load_db returns Ok and the map of
\* exactly the entries of those other lines.
C12_SkipsMalformed ==
  (/\ call.name = "load" /\ fs.live.exists /\ fs.live.readable
   /\ WithEq(LiveLines) # 1..Len(LiveLines)
   /\ \A i \in WithEq(LiveLines) : ValueOf(LiveLines[i]).ok)
  => (call.res = "Ok" /\ call.db = EntriesOf(LiveLines))

\* C12 witness: a file of three lines, the second without '=', loaded as the
\* two entries of the first and the third.
C12_Witness ==
  /\ call.name = "load" /\ call.res = "Ok"
  /\ LiveLines = << <<"a", EQ, QT, "y", QT>>, <<"j", "u", "n", "k">>,
                    <<SP, "b", SP, EQ, SP, QT, "x", QT, SP>> >>
  /\ DOMAIN call.db = {<<"a">>, <<"b">>}
  /\ call.db[<<"a">>] = StringVal(<<"y">>) /\ call.db[<<"b">>] = StringVal(<<"x">>)

\* C13: when a line with '=' of the store file (one that can be read) has a
\* value that does not decode for T, load_db returns a decode error and no
\* map, whatever the other lines are.
C13_DecodeErrorNoMap ==
  (/\ call.name = "load" /\ fs.live.exists /\ fs.live.readable
   /\ \E i \in WithEq(LiveLines) : ~ValueOf(LiveLines[i]).ok)
  => (call.res = "SerdeErr" /\ call.db = EmptyDB)

\* C13 witness: a file of three records, read as f64: the first and the
\* third decode, the second does not; load_db returned the decode error.
C13_Witness ==
  /\ call.name = "load" /\ call.res = "SerdeErr" /\ T = "f64"
  /\ LiveLines = << <<"a", EQ, "1", ".", "5">>, <<"c", EQ, "x">>,
                    <<"b", EQ, "2", ".", "5", "0">> >>

\* C14: a load_db call leaves the disk as it was, and a load_db that follows
\* a load_db returns the same result and the same map.
C14_LoadReadOnly ==
  [][call'.name = "load" =>
       /\ fs' = fs
       /\ call.name = "load" => (call'.res = call.res /\ call'.db = call.db)]_vars

\* C14 witness: two load_db calls on a location that does not exist; nothing
\* was created.
C14_Witness == call.name = "load" /\ ops = 2 /\ fs = FreshDisk

\* C14 witness, a stored file: the second load_db returned the two entries.
C14_WitnessStored ==
  /\ call.name = "load" /\ ops = 2 /\ call.res = "Ok"
  /\ Cardinality(DOMAIN call.db) = 2

\* C15: a save_db on a location without a backups directory, no filesystem
\* call failing, returns Ok: retention does nothing, and the directory of
\* the store, the store file and the backups directory exist afterwards.
C15_NoBackupDirSaves ==
  [][(call'.name = "save" /\ ~fs.bdir) =>
       /\ call'.res = "Ok"
       /\ fs'.root /\ fs'.live.exists /\ fs'.bdir
       /\ DOMAIN fs'.backups = {to_rfc3339(call'.ts)}]_vars

\* C15 witness: the save of a map of two entries on a location that did not
\* exist: the one backup is the copy of the empty store file just created.
C15_Witness ==
  /\ SaveOk(call) /\ call.ts = 1 /\ Cardinality(DOMAIN call.db) = 2
  /\ fs.root /\ fs.bdir /\ fs.live.exists /\ fs.live.data # <<>>
  /\ DOMAIN fs.backups = {to_rfc3339(1)} /\ fs.backups[to_rfc3339(1)] = <<>>

\* C16: after a successful save_db the backups are those retention left at
\* the start of the call and one more, which was not there before and is
\* named by the timestamp of the call; on a location that did not exist it
\* is the only one, and its name parses as a timestamp.
C16_OneNewBackup ==
  [][SaveOk(call') =>
       LET before == DOMAIN fs.backups
           after == DOMAIN fs'.backups
           new == backup_path(call'.ts)
           count == Cardinality(before)
       IN /\ new \notin before /\ new \in after
          /\ \A paths \in read_dir(fs.backups) :
               after \ {new} = DOMAIN delete_old_backups(fs, paths, NoFail).backups
          /\ Cardinality(after) =
               (IF count > MAX_BACKUPS THEN MAX_BACKUPS ELSE count) + 1
          /\ fs = FreshDisk => (after = {new} /\ parse_from_rfc3339(new).ok)]_vars

\* C16 witness: a save over eleven backups: retention removed the oldest and
\* the save added the one of its timestamp.
C16_Witness ==
  /\ SaveOk(call) /\ call.ts = MAX_BACKUPS + 2 /\ ops = 1
  /\ DOMAIN fs.backups = {to_rfc3339(t) : t \in 2..(MAX_BACKUPS + 2)}

\* C16 witness, the first save where there was no store file: one backup.
C16_WitnessFresh ==
  /\ SaveOk(call) /\ call.ts = 1 /\ call.db = EmptyDB
  /\ DOMAIN fs.backups = {to_rfc3339(1)} /\ fs.backups[to_rfc3339(1)] = <<>>
  /\ fs.live.data = <<>>

\* C17: a successful save_db that found a temp file leaves a live file that
\* is the lines of its map, in some order of the entries, and nothing else,
\* and no temp file.
C17_LeftoverTempHarmless ==
  [][(fs.tmp.exists /\ SaveOk(call')) =>
       /\ \E order \in Orders(call'.db) :
            fs'.live.data = Written(call'.db, order, Len(order))
       /\ ~fs'.tmp.exists]_vars

\* C17 witness: the save of one entry on the store whose live file held the
\* line "z" (now the backup) and whose temp file held the record a="x": the
\* live file is the record of the new entry alone.
C17_Witness ==
  /\ SaveOk(call) /\ T = "String"
  /\ DOMAIN fs.backups = {to_rfc3339(1)} /\ fs.backups[to_rfc3339(1)] = <<"z", NL>>
  /\ DOMAIN call.db = {<<"b", SP, "c">>}
  /\ fs.live.data = Line(<<"b", SP, "c">>, StringVal(<<"x">>))
  /\ ~fs.tmp.exists

\* C18: a save_db that returns an error from a call before the copy of the
\* temp file over the live file leaves a store that load_db reads as before
\* the call; and what load_db reads changes in no call but a save_db that
\* made that copy.
C18_FailedSaveKeepsMap ==
  [][/\ (/\ call'.name = "save" /\ call'.res = "Err"
         /\ call'.stage \notin {"copy_live", "remove_tmp"})
        => load_db(T, fs') = load_db(T, fs)
     /\ load_db(T, fs') # load_db(T, fs)
        => (call'.name = "save" /\ (call'.res = "Ok" \/ call'.stage = "remove_tmp"))]_vars

\* C18 witness: after a save of two entries, a save of one entry failed in
\* its first write: the temp file is there, empty, and the live file holds
\* the two entries.
C18_Witness ==
  /\ call.name = "save" /\ call.res = "Err" /\ call.stage = "write" /\ ops = 2
  /\ call.db = OneEntry
  /\ fs.tmp.exists /\ fs.tmp.data = <<>>
  /\ load_db(T, fs).db = TwoEntries

\* C18 witness, retention: remove_file failed on a store of twelve backups;
\* the live file holds the stored record.
C18_WitnessRetention ==
  /\ call.name = "save" /\ call.res = "Err" /\ call.stage = "remove_file"
  /\ call.db = TwoEntries /\ Cardinality(DOMAIN fs.backups) = MAX_BACKUPS + 2
  /\ load_db(T, fs).db = OneEntry

=============================================================================
